---- MODULE Spec2Model ----
(***************************************************************************)
(* StreamMetadata of rtmp/src/sessions/mod.rs: the record of eleven        *)
(* optional fields, StreamMetadata::new() and apply_metadata_values(),     *)
(* which drains a HashMap<String, Amf0Value> and writes one field per      *)
(* recognised key whose value has the type the field needs.                *)
(*                                                                         *)
(* The call is modelled one loop iteration at a time: HashMap::drain()     *)
(* yields the entries in an arbitrary order, so Visit picks any entry that *)
(* is still in the map.                                                    *)
(***************************************************************************)
EXTENDS Integers, FiniteSets

VARIABLES
    self,        \* the StreamMetadata record the method is called on
    properties,  \* the HashMap being drained (what is left of it)
    pc,          \* "fresh": built by new(), no call yet; "loop": inside the
                 \* for loop of apply_metadata_values; "returned": after a call
    steps,       \* loop iterations done by the current (or last) call
    before,      \* history: self when the current (or last) call began
    given,       \* history: the mapping as it was passed to that call
    applied,     \* history: a call on this very record has returned
    prev         \* history: the last call that returned before this one

vars == <<self, properties, pc, steps, before, given, applied, prev>>

(***************************************************************************)
(* Bounds.                                                                 *)
(***************************************************************************)
\* The largest number of entries of a mapping passed to a call.
MaxEntries == 2

(***************************************************************************)
(* Option<T>.                                                              *)
(***************************************************************************)
None == [some |-> FALSE]
Some(x) == [some |-> TRUE, val |-> x]

(***************************************************************************)
(* f64, f32 and u32.  A float is NaN, an infinity, or sign * mant * 2^exp  *)
(* with mant odd (or zero); a u32 is two 16-bit limbs, hi * 2^16 + lo, so  *)
(* that 2^32 - 1 is a value of the model.                                  *)
(***************************************************************************)
\* The width of u32, and of the significand and the exponent range of f32.
U32Bits == 32
F32MantBits == 24
F32MaxExp == 128
Limb == 2 ^ (U32Bits \div 2)

RECURSIVE BitLen(_)
BitLen(n) == IF n = 0 THEN 0 ELSE 1 + BitLen(n \div 2)

Finite(neg, mant, exp) == [cls |-> "finite", neg |-> neg, mant |-> mant, exp |-> exp]
NaN == [cls |-> "nan", neg |-> FALSE, mant |-> 0, exp |-> 0]
Infinity(neg) == [cls |-> "inf", neg |-> neg, mant |-> 0, exp |-> 0]

RECURSIVE Normal(_, _, _)
Normal(neg, mant, exp) ==
    IF mant = 0 THEN Finite(neg, 0, 0)
    ELSE IF mant % 2 = 0 THEN Normal(neg, mant \div 2, exp + 1)
    ELSE Finite(neg, mant, exp)

U32(hi, lo) == [hi |-> hi, lo |-> lo]
U32Zero == U32(0, 0)
U32Max == U32(Limb - 1, Limb - 1)

\* The limbs of mant * 2^exp, for exp >= 0 and mant * 2^exp < 2^32.
Limbs(mant, exp) ==
    IF exp >= U32Bits \div 2
    THEN U32(mant * 2 ^ (exp - U32Bits \div 2), 0)
    ELSE LET l == (mant % Limb) * 2 ^ exp
             h == (mant \div Limb) * 2 ^ exp
         IN  U32(h + l \div Limb, l % Limb)

\* `x as u32` where x: f64: the cast truncates toward zero and saturates at
\* 0 and at 2^32 - 1; NaN gives 0 (the cast is defined for every f64 since
\* Rust 1.45).
AsU32(x) ==
    IF x.cls = "nan" THEN U32Zero
    ELSE IF x.neg THEN U32Zero
    ELSE IF x.cls = "inf" THEN U32Max
    ELSE IF x.mant = 0 THEN U32Zero
    ELSE IF x.exp < 0
    THEN IF -x.exp >= BitLen(x.mant) THEN U32Zero
         ELSE LET q == x.mant \div 2 ^ (-x.exp)
              IN  U32(q \div Limb, q % Limb)
    ELSE IF BitLen(x.mant) + x.exp > U32Bits THEN U32Max
    ELSE Limbs(x.mant, x.exp)

\* `x as f32` where x: f64: rounds to the nearest value with a 24-bit
\* significand, ties to even; overflows to an infinity.
AsF32(x) ==
    IF x.cls # "finite" \/ x.mant = 0 THEN x
    ELSE LET len == BitLen(x.mant)
             sh == IF len > F32MantBits THEN len - F32MantBits ELSE 0
             q == x.mant \div 2 ^ sh
             r == x.mant % 2 ^ sh
             up == sh > 0 /\ (2 * r > 2 ^ sh \/ (2 * r = 2 ^ sh /\ q % 2 = 1))
             m == IF up THEN q + 1 ELSE q
         IN  IF BitLen(m) + x.exp + sh > F32MaxExp
             THEN Infinity(x.neg)
             ELSE Normal(x.neg, m, x.exp + sh)

(***************************************************************************)
(* Amf0Value and its getters.                                              *)
(***************************************************************************)
Number(x) == [type |-> "Number", num |-> x]
Utf8String(s) == [type |-> "Utf8String", str |-> s]
Boolean(b) == [type |-> "Boolean", bool |-> b]
Null == [type |-> "Null"]

get_number(value) == IF value.type = "Number" THEN Some(value.num) ELSE None
get_string(value) == IF value.type = "Utf8String" THEN Some(value.str) ELSE None
get_boolean(value) == IF value.type = "Boolean" THEN Some(value.bool) ELSE None

(***************************************************************************)
(* StreamMetadata.                                                         *)
(***************************************************************************)
Fields ==
    {"video_width", "video_height", "video_codec", "video_frame_rate",
     "video_bitrate_kbps", "audio_codec", "audio_bitrate_kbps",
     "audio_sample_rate", "audio_channels", "audio_is_stereo", "encoder"}

\* StreamMetadata::new()
NewMetadata == [f \in Fields |-> None]

\* The four shapes of a match arm: `if let Some(x) = value.get_..() {
\* self.field = Some(..) }`.

\* A number arm that takes 0 for "no value" and leaves the field alone.
SetU32Guarded(rec, field, value) ==
    IF get_number(value).some /\ AsU32(get_number(value).val) # U32Zero
    THEN [rec EXCEPT ![field] = Some(AsU32(get_number(value).val))]
    ELSE rec

\* A number arm that stores 0 for a value that is no number.
SetU32Defaulting(rec, field, value) ==
    IF get_number(value).some
    THEN [rec EXCEPT ![field] = Some(AsU32(get_number(value).val))]
    ELSE [rec EXCEPT ![field] = Some(U32Zero)]

\* A number arm that writes only a field that is still unset.
SetU32Once(rec, field, value) ==
    IF get_number(value).some /\ ~rec[field].some
    THEN [rec EXCEPT ![field] = Some(AsU32(get_number(value).val))]
    ELSE rec

SetU32(rec, field, value) ==
    IF get_number(value).some
    THEN [rec EXCEPT ![field] = Some(AsU32(get_number(value).val))]
    ELSE rec

SetF32(rec, field, value) ==
    IF get_number(value).some
    THEN [rec EXCEPT ![field] = Some(AsF32(get_number(value).val))]
    ELSE rec

\* A string arm without the `if let`: `self.field = value.get_string()`.
SetStringClearing(rec, field, value) ==
    [rec EXCEPT ![field] = get_string(value)]

SetString(rec, field, value) ==
    IF get_string(value).some
    THEN [rec EXCEPT ![field] = Some(get_string(value).val)]
    ELSE rec

\* A boolean arm that also takes a number, nonzero for true.
SetBoolLoose(rec, field, value) ==
    IF get_boolean(value).some
    THEN [rec EXCEPT ![field] = Some(get_boolean(value).val)]
    ELSE IF get_number(value).some
    THEN [rec EXCEPT ![field] = Some(AsU32(get_number(value).val) # U32Zero)]
    ELSE rec

\* A boolean arm that also sets the channel count from the stereo flag.
SetBoolChannels(rec, field, value) ==
    IF get_boolean(value).some
    THEN [rec EXCEPT ![field] = Some(get_boolean(value).val),
                     !["audio_channels"] =
                         Some(U32(0, IF get_boolean(value).val THEN 2 ELSE 1))]
    ELSE rec

SetBool(rec, field, value) ==
    IF get_boolean(value).some
    THEN [rec EXCEPT ![field] = Some(get_boolean(value).val)]
    ELSE rec

\* The body of the for loop with the "framerate" arm pasted from "width".
ApplyEntryPasted(rec, key, value) ==
    CASE key = "width" -> SetU32(rec, "video_width", value)
      [] key = "height" -> SetU32(rec, "video_height", value)
      [] key = "videocodecid" -> SetString(rec, "video_codec", value)
      [] key = "videodatarate" -> SetU32(rec, "video_bitrate_kbps", value)
      [] key = "framerate" -> SetU32(rec, "video_width", value)
      [] key = "audiocodecid" -> SetString(rec, "audio_codec", value)
      [] key = "audiodatarate" -> SetU32(rec, "audio_bitrate_kbps", value)
      [] key = "audiosamplerate" -> SetU32(rec, "audio_sample_rate", value)
      [] key = "audiochannels" -> SetU32(rec, "audio_channels", value)
      [] key = "stereo" -> SetBool(rec, "audio_is_stereo", value)
      [] key = "encoder" -> SetString(rec, "encoder", value)
      [] OTHER -> rec

\* The body of the for loop with a default arm that keeps a string value as
\* the encoder.
ApplyEntryDefault(rec, key, value) ==
    CASE key = "width" -> SetU32(rec, "video_width", value)
      [] key = "height" -> SetU32(rec, "video_height", value)
      [] key = "videocodecid" -> SetString(rec, "video_codec", value)
      [] key = "videodatarate" -> SetU32(rec, "video_bitrate_kbps", value)
      [] key = "framerate" -> SetF32(rec, "video_frame_rate", value)
      [] key = "audiocodecid" -> SetString(rec, "audio_codec", value)
      [] key = "audiodatarate" -> SetU32(rec, "audio_bitrate_kbps", value)
      [] key = "audiosamplerate" -> SetU32(rec, "audio_sample_rate", value)
      [] key = "audiochannels" -> SetU32(rec, "audio_channels", value)
      [] key = "stereo" -> SetBool(rec, "audio_is_stereo", value)
      [] key = "encoder" -> SetString(rec, "encoder", value)
      [] OTHER -> SetString(rec, "encoder", value)

\* The body of the for loop: the match on the key.
ApplyEntry(rec, key, value) ==
    CASE key = "width" -> SetU32(rec, "video_width", value)
      [] key = "height" -> SetU32(rec, "video_height", value)
      [] key = "videocodecid" -> SetString(rec, "video_codec", value)
      [] key = "videodatarate" -> SetU32(rec, "video_bitrate_kbps", value)
      [] key = "framerate" -> SetF32(rec, "video_frame_rate", value)
      [] key = "audiocodecid" -> SetString(rec, "audio_codec", value)
      [] key = "audiodatarate" -> SetU32(rec, "audio_bitrate_kbps", value)
      [] key = "audiosamplerate" -> SetU32(rec, "audio_sample_rate", value)
      [] key = "audiochannels" -> SetU32(rec, "audio_channels", value)
      [] key = "stereo" -> SetBool(rec, "audio_is_stereo", value)
      [] key = "encoder" -> SetString(rec, "encoder", value)
      [] OTHER -> rec

\* apply_metadata_values as a function of the record and the mapping, the
\* entries taken in one fixed order.
RECURSIVE ApplyAll(_, _)
ApplyAll(rec, props) ==
    IF DOMAIN props = {} THEN rec
    ELSE LET k == CHOOSE x \in DOMAIN props : TRUE
         IN  ApplyAll(ApplyEntry(rec, k, props[k]),
                      [y \in DOMAIN props \ {k} |-> props[y]])

(***************************************************************************)
(* The inputs.                                                             *)
(***************************************************************************)
RecognisedKeys ==
    {"width", "height", "videocodecid", "videodatarate", "framerate",
     "audiocodecid", "audiodatarate", "audiosamplerate", "audiochannels",
     "stereo", "encoder"}
Keys == RecognisedKeys \cup {"duration"}

N1920 == Finite(FALSE, 15, 7)                    \* 1920
N1080 == Finite(FALSE, 135, 3)                   \* 1080
NFrac == Finite(FALSE, 3, -1)                    \* 1.5
NNeg == Finite(TRUE, 5, -1)                      \* -2.5
NBig == Finite(FALSE, 2 ^ 24 + 1, 8)             \* 2^32 + 2^8
N44100 == Finite(FALSE, 11025, 2)                \* 44100
Values ==
    {Number(N1920), Number(N1080), Number(NFrac), Number(NNeg), Number(NBig),
     Number(NaN), Utf8String("avc1"), Boolean(TRUE)}

EmptyMap == [k \in {} |-> Null]

MappingsOver(keys, values) ==
    UNION {[d -> values] : d \in {s \in SUBSET keys : Cardinality(s) <= MaxEntries}}

\* The mappings a call on a fresh record is given.
Mappings == MappingsOver(Keys, Values)

\* The mappings a further call on a record built earlier is given: every
\* key, with a value of each type.
RecValues == {Number(N1920), Number(NNeg), Utf8String("avc1"), Boolean(TRUE)}
RecMappings == MappingsOver(Keys, RecValues)

\* The mappings of the calls that follow one another: an integer key, the
\* float key and an unrecognised key, with two numbers and a string.
SeqKeys == {"width", "framerate", "duration"}
SeqValues == {Number(N1920), Number(NFrac), Utf8String("avc1")}
SeqMappings == MappingsOver(SeqKeys, SeqValues)

\* The mappings of the calls whose termination is checked: every key, with
\* a number or a string.
LiveValues == {Number(N1920), Utf8String("avc1")}
LiveMappings == MappingsOver(Keys, LiveValues)

\* The mappings that built the records a further call is made on: every
\* recognised key, and three of them.
FullSeed ==
    [k \in RecognisedKeys |->
        CASE k \in {"videocodecid", "audiocodecid", "encoder"} -> Utf8String("mp4a")
          [] k = "stereo" -> Boolean(FALSE)
          [] OTHER -> Number(N44100)]
PartSeed == [k \in {"width", "audiocodecid", "stereo"} |-> FullSeed[k]]
Seeds == {FullSeed, PartSeed}

NoCall == [called |-> FALSE]

\* The call that has just returned, as history.
LastCall == [called |-> TRUE, start |-> before, props |-> given, result |-> self]

(***************************************************************************)
(* The operations.                                                         *)
(***************************************************************************)
\* StreamMetadata::new(): a fresh record replaces the one at hand.
New ==
    /\ pc # "loop"
    /\ self' = NewMetadata
    /\ properties' = EmptyMap
    /\ pc' = "fresh"
    /\ steps' = 0
    /\ before' = NewMetadata
    /\ given' = EmptyMap
    /\ applied' = FALSE
    /\ prev' = IF pc = "returned" THEN LastCall ELSE prev

\* apply_metadata_values(&mut self, properties) is entered.
Call(m) ==
    /\ pc # "loop"
    /\ properties' = m
    /\ pc' = "loop"
    /\ steps' = 0
    /\ before' = self
    /\ given' = m
    /\ prev' = IF pc = "returned" THEN LastCall ELSE prev
    /\ UNCHANGED <<self, applied>>

\* An iteration that reads an entry without taking it out of the map (iter()
\* in place of drain(), on a map that is never emptied).
VisitKeeping(key) ==
    /\ pc = "loop"
    /\ key \in DOMAIN properties
    /\ steps < MaxEntries + 2
    /\ self' = ApplyEntry(self, key, properties[key])
    /\ steps' = steps + 1
    /\ UNCHANGED <<properties, pc, before, given, applied, prev>>

\* One iteration of `for (key, value) in properties.drain()`: any entry
\* still in the map is taken out and matched.
Visit(key) ==
    /\ pc = "loop"
    /\ key \in DOMAIN properties
    /\ self' = ApplyEntry(self, key, properties[key])
    /\ properties' = [k \in DOMAIN properties \ {key} |-> properties[k]]
    /\ steps' = steps + 1
    /\ UNCHANGED <<pc, before, given, applied, prev>>

\* The drain is exhausted: the loop ends and the call returns.
Return ==
    /\ pc = "loop"
    /\ DOMAIN properties = {}
    /\ pc' = "returned"
    /\ applied' = TRUE
    /\ UNCHANGED <<self, properties, steps, before, given, prev>>

Init ==
    /\ self = NewMetadata
    /\ properties = EmptyMap
    /\ pc = "fresh"
    /\ steps = 0
    /\ before = NewMetadata
    /\ given = EmptyMap
    /\ applied = FALSE
    /\ prev = NoCall

\* A record built earlier by one call, from one of the seeds.
InitRec ==
    \E seed \in Seeds :
        /\ self = ApplyAll(NewMetadata, seed)
        /\ properties = EmptyMap
        /\ pc = "returned"
        /\ steps = Cardinality(DOMAIN seed)
        /\ before = NewMetadata
        /\ given = seed
        /\ applied = TRUE
        /\ prev = NoCall

Step == Return \/ \E key \in Keys : Visit(key)

\* A record is built and a mapping is applied to it once.
Next ==
    \/ pc = "fresh" /\ \E m \in Mappings : Call(m)
    \/ \E key \in Keys : Visit(key)
    \/ Return

\* One further call on a record built earlier.
NextRec ==
    \/ pc = "returned" /\ ~prev.called /\ \E m \in RecMappings : Call(m)
    \/ \E key \in Keys : Visit(key)
    \/ Return

\* Any number of calls, one after the other, on records built by new().
NextSeq ==
    \/ New
    \/ \E m \in SeqMappings : Call(m)
    \/ \E key \in Keys : Visit(key)
    \/ Return

\* A record is built and a mapping is applied to it once.
NextLive ==
    \/ pc = "fresh" /\ \E m \in LiveMappings : Call(m)
    \/ \E key \in Keys : Visit(key)
    \/ Return

Spec == Init /\ [][Next]_vars

\* The for loop is sequential code: a call that can take a step takes it.
SpecLive == Init /\ [][NextLive]_vars /\ WF_vars(Step)

SpecRec == InitRec /\ [][NextRec]_vars

SpecSeq == Init /\ [][NextSeq]_vars

(***************************************************************************)
(* The table of the match: the field each key writes and the type of value *)
(* it takes.                                                               *)
(***************************************************************************)
FieldOf ==
    [k \in RecognisedKeys |->
        CASE k = "width" -> "video_width"
          [] k = "height" -> "video_height"
          [] k = "videocodecid" -> "video_codec"
          [] k = "videodatarate" -> "video_bitrate_kbps"
          [] k = "framerate" -> "video_frame_rate"
          [] k = "audiocodecid" -> "audio_codec"
          [] k = "audiodatarate" -> "audio_bitrate_kbps"
          [] k = "audiosamplerate" -> "audio_sample_rate"
          [] k = "audiochannels" -> "audio_channels"
          [] k = "stereo" -> "audio_is_stereo"
          [] k = "encoder" -> "encoder"]

KeyOf == [f \in Fields |-> CHOOSE k \in RecognisedKeys : FieldOf[k] = f]

IntKeys ==
    {"width", "height", "videodatarate", "audiodatarate", "audiosamplerate",
     "audiochannels"}
StringKeys == {"videocodecid", "audiocodecid", "encoder"}

\* The value has the type the key's field requires.
RightType(key, value) ==
    /\ key \in RecognisedKeys
    /\ CASE key \in IntKeys \cup {"framerate"} -> value.type = "Number"
         [] key \in StringKeys -> value.type = "Utf8String"
         [] OTHER -> value.type = "Boolean"

\* The value as the key's field stores it.
Converted(key, value) ==
    CASE key \in IntKeys -> AsU32(value.num)
      [] key = "framerate" -> AsF32(value.num)
      [] key \in StringKeys -> value.str
      [] OTHER -> value.bool

\* The stored u32 is the number x itself.
SameNumber(u, x) ==
    /\ x.cls = "finite"
    /\ x.mant = 0 \/ (~x.neg /\ x.exp >= 0 /\ BitLen(x.mant) + x.exp <= U32Bits)
    /\ u = (IF x.mant = 0 THEN U32Zero ELSE Limbs(x.mant, x.exp))

\* The stored value is the mapping's value itself.
SameValue(key, stored, value) ==
    CASE key \in IntKeys -> SameNumber(stored, value.num)
      [] key = "framerate" -> stored = value.num
      [] key \in StringKeys -> stored = value.str
      [] OTHER -> stored = value.bool

Restrict(props, keys) == [k \in DOMAIN props \cap keys |-> props[k]]
Size(props) == Cardinality(DOMAIN props)

\* The keys of the mapping whose entries the call writes.
Written(props) == {k \in DOMAIN props : RightType(k, props[k])}

(***************************************************************************)
(* C1                                                                      *)
(***************************************************************************)
\* C1 as stated: after a mapping is applied to a record fresh from new(), a
\* field is set if and only if its key is in the mapping with a value of the
\* field's type, a set field holds that very value, and every other field is
\* unset.
C1_HoldsTheValue ==
    (pc = "returned" /\ before = NewMetadata) =>
        \A k \in RecognisedKeys :
            IF k \in Written(given)
            THEN /\ self[FieldOf[k]].some
                 /\ SameValue(k, self[FieldOf[k]].val, given[k])
            ELSE self[FieldOf[k]] = None

\* C1, amended: after a mapping is applied to a record fresh from new(), a
\* field is set if and only if its key is in the mapping with a value of the
\* field's type, a set field holds that value converted to the field's type
\* (`as u32`, `as f32`, or the string or boolean itself), and every other
\* field is unset.
C1_FieldsMatchMapping ==
    (pc = "returned" /\ before = NewMetadata) =>
        \A k \in RecognisedKeys :
            self[FieldOf[k]] =
                IF k \in Written(given) THEN Some(Converted(k, given[k])) ELSE None

\* {width: 1920, height: 1080} has given video_width = 1920, video_height =
\* 1080 and nine unset fields.
C1_Witness ==
    /\ pc = "returned"
    /\ before = NewMetadata
    /\ given = [k \in {"width", "height"} |->
                   IF k = "width" THEN Number(N1920) ELSE Number(N1080)]
    /\ self.video_width = Some(U32(0, 1920))
    /\ self.video_height = Some(U32(0, 1080))
    /\ \A f \in Fields \ {"video_width", "video_height"} : self[f] = None

C3_WrongTypeSkipped ==
    /\ pc = "returned" =>
           \A k \in DOMAIN given \cap RecognisedKeys :
               self[FieldOf[k]] =
                   IF RightType(k, given[k])
                   THEN Some(Converted(k, given[k]))
                   ELSE before[FieldOf[k]]
    /\ pc = "returned" => properties = EmptyMap

\* A call on a record with fields set has skipped a wrongly typed entry of
\* a set field and applied another entry.
C3_Witness ==
    /\ pc = "returned"
    /\ prev.called
    /\ \E k1, k2 \in DOMAIN given \cap RecognisedKeys :
           /\ ~RightType(k1, given[k1])
           /\ before[FieldOf[k1]].some
           /\ RightType(k2, given[k2])
           /\ self[FieldOf[k2]] # before[FieldOf[k2]]

(***************************************************************************)
(* C4                                                                      *)
(***************************************************************************)
\* C4: applying a mapping gives the record that applying it without its
\* unrecognised keys gives; a mapping of unrecognised keys only leaves the
\* record as it was.
C4_UnknownKeysIgnored ==
    pc = "returned" =>
        /\ self = ApplyAll(before, Restrict(given, RecognisedKeys))
        /\ DOMAIN given \cap RecognisedKeys = {} => self = before

\* A call on a record with fields set was given an unrecognised key with a
\* string and a recognised key that it applied.
C4_Witness ==
    /\ pc = "returned"
    /\ prev.called
    /\ \E k \in DOMAIN given \ RecognisedKeys : given[k].type = "Utf8String"
    /\ Written(given) # {}
    /\ self # before

LimbRange == 0 .. Limb - 1

\* C6: a number given for an integer key always sets the field, to a value
\* within 0 .. 2^32 - 1: 0 for a negative number, 2^32 - 1 for a number
\* above it, else the number truncated toward zero.
C6_NumberCoerced ==
    pc = "returned" =>
        \A k \in DOMAIN given \cap IntKeys :
            given[k].type = "Number" =>
                LET x == given[k].num
                    s == self[FieldOf[k]]
                IN  /\ s.some
                    /\ s.val.hi \in LimbRange /\ s.val.lo \in LimbRange
                    /\ (x.cls # "nan" /\ x.neg) => s.val = U32Zero
                    /\ (x.cls = "finite" /\ ~x.neg /\ x.mant # 0) =>
                           IF BitLen(x.mant) + x.exp > U32Bits
                           THEN s.val = U32Max
                           ELSE IF x.exp >= 0
                           THEN s.val = Limbs(x.mant, x.exp)
                           ELSE /\ s.val.hi < Limb \div 2
                                /\ LET v == s.val.hi * Limb + s.val.lo
                                   IN  /\ v * 2 ^ (-x.exp) <= x.mant
                                       /\ x.mant < (v + 1) * 2 ^ (-x.exp)

\* A call was given a number above 2^32 - 1 and a negative number for two
\* integer keys, and has stored 2^32 - 1 and 0.
C6_Witness ==
    /\ pc = "returned"
    /\ \E k1, k2 \in DOMAIN given \cap IntKeys :
           /\ given[k1] = Number(NBig) /\ self[FieldOf[k1]] = Some(U32Max)
           /\ given[k2] = Number(NNeg) /\ self[FieldOf[k2]] = Some(U32Zero)

(***************************************************************************)
(* C7                                                                      *)
(***************************************************************************)
\* C7: distinct keys write distinct fields, and at every point of a call a
\* field whose key is not in the mapping holds what it held before the call.
C7_AbsentKeyFieldKept ==
    /\ \A k1, k2 \in RecognisedKeys : FieldOf[k1] = FieldOf[k2] => k1 = k2
    /\ \A f \in Fields : KeyOf[f] \notin DOMAIN given => self[f] = before[f]

\* A call has changed a record in which a field was set whose key the
\* mapping does not hold.
C7_Witness ==
    /\ pc = "returned"
    /\ prev.called
    /\ self # before
    /\ \E f \in Fields : KeyOf[f] \notin DOMAIN given /\ before[f].some

(***************************************************************************)
(* C8                                                                      *)
(***************************************************************************)
\* C8: whatever order the entries are visited in, the record depends only
\* on which entries have been visited: it is what applying those entries in
\* one fixed order gives, so every order ends in the same record.
C8_OrderIndependent ==
    pc # "fresh" =>
        self = ApplyAll(before, Restrict(given, DOMAIN given \ DOMAIN properties))

\* A call has visited two entries, of two keys it writes, and both changed
\* the record.
C8_Witness ==
    /\ pc = "returned"
    /\ prev.called
    /\ \E k1, k2 \in Written(given) :
           /\ k1 # k2
           /\ self[FieldOf[k1]] # before[FieldOf[k1]]
           /\ self[FieldOf[k2]] # before[FieldOf[k2]]

(***************************************************************************)
(* C9                                                                      *)
(***************************************************************************)
\* B's entries of the right type, and A's entries for the other keys.
Override(A, B) ==
    [k \in DOMAIN A \cup Written(B) |-> IF k \in Written(B) THEN B[k] ELSE A[k]]

\* C9: applying A and then B gives what applying Override(A, B) once gives;
\* applying a mapping a second time changes nothing; a set field never
\* becomes unset.
C9_ComposeByOverride ==
    /\ \A f \in Fields : before[f].some => self[f].some
    /\ (pc = "returned" /\ prev.called /\ prev.result = before) =>
           /\ self = ApplyAll(prev.start, Override(prev.props, given))
           /\ given = prev.props => self = before

\* B has been applied after A, and has given a field that A had set another
\* value.
C9_Witness ==
    /\ pc = "returned"
    /\ prev.called
    /\ prev.result = before
    /\ \E k \in Written(prev.props) \cap Written(given) :
           /\ before[FieldOf[k]] = Some(Converted(k, prev.props[k]))
           /\ self[FieldOf[k]] # before[FieldOf[k]]

(***************************************************************************)
(* C10                                                                     *)
(***************************************************************************)
\* C10: every call returns; each iteration takes exactly the visited entry
\* out of the map, the map is empty when the call returns, and the call has
\* then made as many iterations as the mapping had entries.
C10_Terminates ==
    /\ [](pc # "fresh" => steps + Size(properties) = Size(given))
    /\ [](pc = "returned" => (Size(properties) = 0 /\ steps = Size(given)))
    /\ [][pc = "loop" =>
              \/ pc' = "returned" /\ properties = EmptyMap
              \/ /\ pc' = "loop"
                 /\ steps' = steps + 1
                 /\ \E k \in DOMAIN properties :
                        properties' = Restrict(properties, DOMAIN properties \ {k})]_vars
    /\ (pc = "loop") ~> (pc = "returned")

\* A call given as many entries as a mapping may hold has returned.
C10_Witness ==
    /\ pc = "returned"
    /\ Size(given) = MaxEntries
    /\ steps = MaxEntries
    /\ DOMAIN properties = {}

====
